---- MODULE Spec2Model ----
(***************************************************************************)
(* Model of the GIKI crawler (giki_selenium.py): URL canonicalisation, the  *)
(* robots gate, the two fetchers, content extraction, content-hash dedup,   *)
(* the crawl loop and main()'s shutdown path.                               *)
(*                                                                          *)
(* Strings are sequences of one-character strings, so that the string       *)
(* operations of the source (split, rstrip, replace, endswith, lower)       *)
(* are computed rather than assumed.                                        *)
(***************************************************************************)
EXTENDS Integers, Sequences, FiniteSets, TLC

(* ------------------------------------------------------------------------ *)
(* String helpers (Python str methods used by the source)                    *)
(* ------------------------------------------------------------------------ *)

Take(s, n) == SubSeq(s, 1, n)

Drop(s, n) == SubSeq(s, n + 1, Len(s))

RECURSIVE FindFrom(_, _, _)
\* index (1-based) of the first occurrence of character c at or after i, 0 if none
FindFrom(s, c, i) ==
    IF i > Len(s) THEN 0 ELSE IF s[i] = c THEN i ELSE FindFrom(s, c, i + 1)

\* str.find(c)
FindChar(s, c) == FindFrom(s, c, 1)

\* str.rfind(c)
RFindChar(s, c) ==
    LET I == {i \in 1..Len(s) : s[i] = c}
    IN  IF I = {} THEN 0 ELSE CHOOSE i \in I : \A j \in I : i >= j

StartsWith(s, p) == Len(s) >= Len(p) /\ SubSeq(s, 1, Len(p)) = p

EndsWith(s, p) == Len(s) >= Len(p) /\ SubSeq(s, Len(s) - Len(p) + 1, Len(s)) = p

\* "sub in s"
Contains(s, sub) ==
    \E i \in 1..(Len(s) - Len(sub) + 1) : SubSeq(s, i, i + Len(sub) - 1) = sub

RECURSIVE Replace(_, _, _)
\* str.replace(old, new): leftmost, non-overlapping
Replace(s, old, new) ==
    IF Len(s) < Len(old) \/ Len(old) = 0 THEN s
    ELSE IF StartsWith(s, old) THEN new \o Replace(Drop(s, Len(old)), old, new)
    ELSE <<s[1]>> \o Replace(Drop(s, 1), old, new)

RECURSIVE Split(_, _)
\* str.split(c) for a one-character separator: always at least one part
Split(s, c) ==
    LET i == FindChar(s, c)
    IN  IF i = 0 THEN <<s>> ELSE <<Take(s, i - 1)>> \o Split(Drop(s, i), c)

RECURSIVE Join(_, _)
\* sep.join(parts)
Join(parts, sep) ==
    IF parts = <<>> THEN <<>>
    ELSE IF Len(parts) = 1 THEN parts[1]
    ELSE parts[1] \o sep \o Join(Tail(parts), sep)

RECURSIVE RStrip(_, _)
\* str.rstrip(c)
RStrip(s, c) ==
    IF s # <<>> /\ s[Len(s)] = c THEN RStrip(Take(s, Len(s) - 1), c) ELSE s

RECURSIVE LStrip(_, _)
LStrip(s, c) ==
    IF s # <<>> /\ s[1] = c THEN LStrip(Drop(s, 1), c) ELSE s

\* str.strip() over the only whitespace character of the model
Strip(s) == RStrip(LStrip(s, " "), " ")

UpperSeq ==
    <<"A", "B", "C", "D", "E", "F", "G", "H", "I", "J", "K", "L", "M",
      "N", "O", "P", "Q", "R", "S", "T", "U", "V", "W", "X", "Y", "Z">>

LowerSeq ==
    <<"a", "b", "c", "d", "e", "f", "g", "h", "i", "j", "k", "l", "m",
      "n", "o", "p", "q", "r", "s", "t", "u", "v", "w", "x", "y", "z">>

UpperLetters == {UpperSeq[i] : i \in 1..26}

LowerChar(c) ==
    IF c \in UpperLetters THEN LowerSeq[CHOOSE i \in 1..26 : UpperSeq[i] = c] ELSE c

\* str.lower()
Lower(s) == [i \in 1..Len(s) |-> LowerChar(s[i])]

LowerLetters == {LowerSeq[i] : i \in 1..26}

Digits == {"0", "1", "2", "3", "4", "5", "6", "7", "8", "9"}

IsAlpha(c) == c \in LowerLetters \/ c \in UpperLetters

\* urllib.parse.scheme_chars
IsSchemeChar(c) == IsAlpha(c) \/ c \in Digits \/ c \in {"+", "-", "."}

(* ------------------------------------------------------------------------ *)
(* urllib.parse as used by normalize_url, same_domain and extract_links      *)
(* ------------------------------------------------------------------------ *)

HTTPS == <<"h", "t", "t", "p", "s">>

HTTP == <<"h", "t", "t", "p">>

\* urllib.parse.uses_netloc / uses_params / uses_relative restricted to the
\* schemes of the model ("" included, as in the library)
UsesNetloc == {<<>>, HTTP, HTTPS}

UsesParams == {<<>>, HTTP, HTTPS}

UsesRelative == {<<>>, HTTP, HTTPS}

\* index of the first of "/", "?", "#" at or after position 3, else Len+1
NetlocEnd(url) ==
    LET I == {i \in 3..Len(url) : url[i] \in {"/", "?", "#"}}
    IN  IF I = {} THEN Len(url) + 1 ELSE CHOOSE i \in I : \A j \in I : i <= j

\* str.split(c, 1), padded to two parts, given the index i of c (0: absent)
CutAt(s, i) == IF i > 0 THEN <<Take(s, i - 1), Drop(s, i)>> ELSE <<s, <<>>>>

SplitOnce(s, c) == CutAt(s, FindChar(s, c))

\* urlsplit, step 1: the scheme is what precedes the first ":" (at index c)
\* if it is made of scheme characters and starts with a letter
SchemeAt(url, c, default) ==
    IF c > 1 /\ IsAlpha(url[1]) /\ \A k \in 1..(c - 1) : IsSchemeChar(url[k])
    THEN [scheme |-> Lower(Take(url, c - 1)), rest |-> Drop(url, c)]
    ELSE [scheme |-> default, rest |-> url]

SplitScheme(url, default) == SchemeAt(url, FindChar(url, ":"), default)

\* urlsplit, step 2: the netloc follows "//" and ends at index e
NetlocAt(p, e) ==
    IF StartsWith(p.rest, <<"/", "/">>)
    THEN [scheme |-> p.scheme, netloc |-> SubSeq(p.rest, 3, e - 1), rest |-> Drop(p.rest, e - 1)]
    ELSE [scheme |-> p.scheme, netloc |-> <<>>, rest |-> p.rest]

SplitNetloc(p) == NetlocAt(p, NetlocEnd(p.rest))

\* urlsplit raises ValueError("Invalid IPv6 URL") on an unmatched bracket
BadNetloc(net) ==
    \/ (FindChar(net, "[") > 0 /\ FindChar(net, "]") = 0)
    \/ (FindChar(net, "]") > 0 /\ FindChar(net, "[") = 0)

\* urlsplit, step 3: the fragment
FragmentCut(p, cut) ==
    [scheme |-> p.scheme, netloc |-> p.netloc, rest |-> cut[1], fragment |-> cut[2]]

SplitFragment(p) == FragmentCut(p, SplitOnce(p.rest, "#"))

\* urlsplit, step 4: the query
QueryCut(p, cut) ==
    [scheme |-> p.scheme, netloc |-> p.netloc, rest |-> cut[1], query |-> cut[2],
     fragment |-> p.fragment]

SplitQuery(p) == QueryCut(p, SplitOnce(p.rest, "?"))

\* _splitparams: the first ";" after the last "/"
ParamsAt(path) == FindFrom(path, ";", RFindChar(path, "/") + 1)

\* urlparse: params are split off the path at index i (0: none)
ParamsCut(p, i) ==
    [ok |-> ~BadNetloc(p.netloc), scheme |-> p.scheme, netloc |-> p.netloc,
     path |-> IF i > 0 THEN Take(p.rest, i - 1) ELSE p.rest,
     params |-> IF i > 0 THEN Drop(p.rest, i) ELSE <<>>,
     query |-> p.query, fragment |-> p.fragment]

SplitParams(p) == ParamsCut(p, IF p.scheme \in UsesParams THEN ParamsAt(p.rest) ELSE 0)

\* urlparse(url, scheme=default): the 6-tuple, with ok = FALSE when the
\* library raises ValueError
urlparse_default(url, default) ==
    SplitParams(SplitQuery(SplitFragment(SplitNetloc(SplitScheme(url, default)))))

urlparse(url) == urlparse_default(url, <<>>)

\* urlunparse, step by step on the url built so far
WithParams(p) == IF p.params # <<>> THEN p.path \o <<";">> \o p.params ELSE p.path

WithNetloc(p, url) ==
    IF \/ p.netloc # <<>>
       \/ (p.scheme # <<>> /\ p.scheme \in UsesNetloc /\ ~StartsWith(url, <<"/", "/">>))
    THEN <<"/", "/">> \o p.netloc
           \o (IF url # <<>> /\ url[1] # "/" THEN <<"/">> \o url ELSE url)
    ELSE url

WithScheme(p, url) == IF p.scheme # <<>> THEN p.scheme \o <<":">> \o url ELSE url

WithQuery(p, url) == IF p.query # <<>> THEN url \o <<"?">> \o p.query ELSE url

WithFragment(p, url) == IF p.fragment # <<>> THEN url \o <<"#">> \o p.fragment ELSE url

\* urlunparse(parts)
urlunparse(p) ==
    WithFragment(p, WithQuery(p, WithScheme(p, WithNetloc(p, WithParams(p)))))

\* characters quote_plus leaves alone
SafeChars == LowerLetters \cup UpperLetters \cup Digits \cup {"_", ".", "-", "~"}

\* percent-escapes of the reserved characters of the model
PctCode ==
    [c \in {"/", "=", ";", ":", "?", "&", "#", "+", "[", "]", " ", "%"} |->
        CASE c = "/" -> <<"%", "2", "F">> [] c = "=" -> <<"%", "3", "D">>
          [] c = " " -> <<"%", "2", "0">> [] c = "%" -> <<"%", "2", "5">>
          [] c = ";" -> <<"%", "3", "B">> [] c = ":" -> <<"%", "3", "A">>
          [] c = "?" -> <<"%", "3", "F">> [] c = "&" -> <<"%", "2", "6">>
          [] c = "#" -> <<"%", "2", "3">> [] c = "+" -> <<"%", "2", "B">>
          [] c = "[" -> <<"%", "5", "B">> [] c = "]" -> <<"%", "5", "D">>]

RECURSIVE quote_plus(_)
\* urllib.parse.quote_plus
quote_plus(s) ==
    IF s = <<>> THEN <<>>
    ELSE (IF s[1] \in SafeChars THEN <<s[1]>>
          ELSE IF s[1] = " " THEN <<"+">>
          ELSE IF s[1] \in DOMAIN PctCode THEN PctCode[s[1]]
          ELSE <<s[1]>>) \o quote_plus(Tail(s))

RECURSIVE unquote(_)
\* urllib.parse.unquote
unquote(s) ==
    IF s = <<>> THEN <<>>
    ELSE IF Len(s) >= 3 /\ \E c \in DOMAIN PctCode : PctCode[c] = Take(s, 3)
         THEN <<CHOOSE c \in DOMAIN PctCode : PctCode[c] = Take(s, 3)>> \o unquote(Drop(s, 3))
         ELSE <<s[1]>> \o unquote(Tail(s))

\* name/value decoding of parse_qsl: "+" is a space, then unquote
qs_decode(s) == unquote(Replace(s, <<"+">>, <<" ">>))

\* one "name=value" piece of a query, cut at its first "="
DecodePair(cut) == <<qs_decode(cut[1]), qs_decode(cut[2])>>

RECURSIVE parse_qsl_parts(_)
parse_qsl_parts(parts) ==
    IF parts = <<>> THEN <<>>
    ELSE (IF parts[1] = <<>> THEN <<>> ELSE <<DecodePair(SplitOnce(parts[1], "="))>>)
            \o parse_qsl_parts(Tail(parts))

\* parse_qsl(query, keep_blank_values=True)
parse_qsl(query) == parse_qsl_parts(Split(query, "&"))

RECURSIVE urlencode(_)
\* urlencode(pairs, doseq=True)
urlencode(qs) ==
    IF qs = <<>> THEN <<>>
    ELSE quote_plus(qs[1][1]) \o <<"=">> \o quote_plus(qs[1][2])
            \o (IF Len(qs) > 1 THEN <<"&">> \o urlencode(Tail(qs)) ELSE <<>>)

\* the block-list of normalize_url, on the lowercased key
TrackingKey(k) ==
    \/ StartsWith(k, <<"u", "t", "m", "_">>)
    \/ k \in {<<"f", "b", "c", "l", "i", "d">>, <<"g", "c", "l", "i", "d">>,
              <<"t", "r", "k">>}

IsTracking(k) == TrackingKey(Lower(k))

\* the query of normalize_url: tracking parameters dropped, the rest re-encoded
CleanQuery(query) ==
    urlencode(SelectSeq(parse_qsl(query), LAMBDA kv : ~IsTracking(kv[1])))

\* "s or '/'"
OrRoot(path) == IF path = <<>> THEN <<"/">> ELSE path

\* normalize_url after urlparse: p is the parsed u
NormalizeParsed(p, u) ==
    IF p.ok
    THEN urlunparse([p EXCEPT !.scheme = IF p.scheme = <<>> THEN HTTPS ELSE p.scheme,
                              !.fragment = <<>>,
                              !.query = CleanQuery(p.query),
                              !.path = OrRoot(RStrip(p.path, "/"))])
    ELSE u

normalize_url(u) == NormalizeParsed(urlparse(u), u)

\* the comparison of same_domain on the two lowercased netlocs
\* variant: the suffix test without the leading dot
HostMatches_NoDot(p, b) == p = b \/ EndsWith(p, b)

HostMatches(p, b) == p = b \/ EndsWith(p, <<".">> \o b)

SameParsed(pu, pb) ==
    IF pu.ok /\ pb.ok THEN HostMatches(Lower(pu.netloc), Lower(pb.netloc)) ELSE FALSE

same_domain(url, base) == SameParsed(urlparse(url), urlparse(base))

RECURSIVE ResolveDots(_, _)
\* the dot-segment loop of urljoin
ResolveDots(segments, acc) ==
    IF segments = <<>> THEN acc
    ELSE IF segments[1] = <<".", ".">>
         THEN ResolveDots(Tail(segments),
                          IF acc = <<>> THEN acc ELSE Take(acc, Len(acc) - 1))
         ELSE ResolveDots(Tail(segments),
                          IF segments[1] = <<".">> THEN acc ELSE Append(acc, segments[1]))

\* segments[1:-1] = filter(None, segments[1:-1])
FilterMiddle(segments) ==
    IF Len(segments) <= 2 THEN segments
    ELSE <<segments[1]>>
           \o SelectSeq(SubSeq(segments, 2, Len(segments) - 1), LAMBDA x : x # <<>>)
           \o <<segments[Len(segments)]>>

\* base_parts: the base path's segments without its last non-empty one
BaseParts(bp) == IF bp[Len(bp)] # <<>> THEN Take(bp, Len(bp) - 1) ELSE bp

\* the segments urljoin resolves
Segments(bpath, rpath) ==
    IF rpath # <<>> /\ rpath[1] = "/" THEN Split(rpath, "/")
    ELSE FilterMiddle(BaseParts(Split(bpath, "/")) \o Split(rpath, "/"))

\* the resolved path: a trailing "." or ".." leaves a trailing slash
ResolvedPath(segments) ==
    OrRoot(Join(IF segments[Len(segments)] \in {<<".">>, <<".", ".">>}
                THEN Append(ResolveDots(segments, <<>>), <<>>)
                ELSE ResolveDots(segments, <<>>),
                <<"/">>))

\* urljoin after the two urlparse calls: b is the parsed base, r the parsed url
JoinParsed(base, url, b, r) ==
    IF ~b.ok \/ ~r.ok THEN [ok |-> FALSE, url |-> url]
    ELSE IF r.scheme # b.scheme \/ r.scheme \notin UsesRelative
         THEN [ok |-> TRUE, url |-> url]
    ELSE IF r.netloc # <<>> THEN [ok |-> TRUE, url |-> urlunparse(r)]
    ELSE IF r.path = <<>> /\ r.params = <<>>
         THEN [ok |-> TRUE,
               url |-> urlunparse([r EXCEPT !.netloc = b.netloc, !.path = b.path,
                          !.params = b.params,
                          !.query = IF r.query = <<>> THEN b.query ELSE r.query])]
    ELSE [ok |-> TRUE,
          url |-> urlunparse([r EXCEPT !.netloc = b.netloc,
                               !.path = ResolvedPath(Segments(b.path, r.path))])]

JoinWithBase(base, url, b) == JoinParsed(base, url, b, urlparse_default(url, b.scheme))

\* urljoin(base, url): [ok, url]; ok = FALSE when urlparse raises
urljoin(base, url) ==
    IF base = <<>> THEN [ok |-> TRUE, url |-> url]
    ELSE IF url = <<>> THEN [ok |-> TRUE, url |-> base]
    ELSE JoinWithBase(base, url, urlparse(base))

(* ------------------------------------------------------------------------ *)
(* Text: a sequence of tokens, each a word or a whitespace character         *)
(* ------------------------------------------------------------------------ *)

Whitespace == {" ", "\t", "\n"}

\* program constants of giki_selenium.py
MinWords == 30

RenderThreshold == 800

HashLen == 16

KeyMax == 200

\* str.split(): the words of a text
SplitWords(text) == SelectSeq(text, LAMBDA t : t \notin Whitespace)

\* re.sub(r"\s+", " ", text).strip(): the words joined by single spaces
\* variant: the text is kept as it is
CollapseWhitespace_Raw(text) == text

CollapseWhitespace(text) ==
    LET w == SplitWords(text)
    IN  [i \in 1..(IF w = <<>> THEN 0 ELSE 2 * Len(w) - 1) |->
            IF i % 2 = 1 THEN w[(i + 1) \div 2] ELSE " "]

\* n copies of word w separated by sep: the text of a page of the modelled sites
Words(w, n, sep) == [i \in 1..(2 * n - 1) |-> IF i % 2 = 1 THEN w ELSE sep]

\* hexdigest()[:16]: the digest keeps a bounded prefix of the information of
\* the text, so two texts that agree on it collide
content_hash(text) == Take(text, IF Len(text) < HashLen THEN Len(text) ELSE HashLen)

(* ------------------------------------------------------------------------ *)
(* HTML documents and the extractor                                          *)
(* ------------------------------------------------------------------------ *)

\* Optional values: <<>> is None, <<v>> is a value
None == <<>>

Some(v) == <<v>>

\* region selection order of extract_content
MainPriority == <<"main", "role_main", "article", "div_content", "id_content", "body">>

\* the first region of the priority list that the document has, None if none
RECURSIVE FirstRegion(_, _)
FirstRegion(regions, order) ==
    IF order = <<>> THEN None
    ELSE IF order[1] \in DOMAIN regions THEN Some(regions[order[1]])
    ELSE FirstRegion(regions, Tail(order))

\* the text extract_content works on: the main region, else the whole document
MainText(html, main) == IF main # None THEN main[1] ELSE html.text

\* the record built from the cleaned text
RecordOf(html, url, content_text) ==
    IF ~html.parses THEN None
    ELSE IF content_text = <<>> THEN None
    ELSE Some([url |-> url, title |-> html.title, description |-> html.description,
               content |-> content_text,
               word_count |-> Len(SplitWords(content_text))])

\* extract_content(html, url): Some(PageRecord) or None
extract_content(html, url) ==
    RecordOf(html, url,
             CollapseWhitespace(MainText(html, FirstRegion(html.regions, MainPriority))))

SkipSchemes ==
    {<<"m", "a", "i", "l", "t", "o", ":">>, <<"t", "e", "l", ":">>,
     <<"j", "a", "v", "a", "s", "c", "r", "i", "p", "t", ":">>}

RECURSIVE Uniq(_, _)
\* order-preserving removal of repeats
Uniq(l, acc) ==
    IF l = <<>> THEN acc
    ELSE Uniq(Tail(l),
              IF \E i \in 1..Len(acc) : acc[i] = l[1] THEN acc ELSE Append(acc, l[1]))

RECURSIVE JoinLinks(_, _)
RECURSIVE LinkStep(_, _, _)
RECURSIVE LinkJoined(_, _, _)

Prepend(l, rec) == [ok |-> rec.ok, links |-> <<l>> \o rec.links]

\* the link is joined: normalize it and go on, or propagate urljoin's error
LinkJoined(full, rest, base_url) ==
    IF ~full.ok THEN [ok |-> FALSE, links |-> <<>>]
    ELSE Prepend(normalize_url(full.url), JoinLinks(rest, base_url))

\* one stripped href: skipped, or joined to the page's URL without its fragment
LinkStep(href, rest, base_url) ==
    IF \E pre \in SkipSchemes : StartsWith(href, pre) THEN JoinLinks(rest, base_url)
    ELSE LinkJoined(urljoin(base_url, Split(href, "#")[1]), rest, base_url)

\* the first loop of extract_links: [ok, links]; ok = FALSE when urljoin raises
JoinLinks(hrefs, base_url) ==
    IF hrefs = <<>> THEN [ok |-> TRUE, links |-> <<>>]
    ELSE LinkStep(Strip(hrefs[1]), Tail(hrefs), base_url)

\* the second loop of extract_links: unique, same-domain links
FilterLinks(j, site_base) ==
    [ok |-> j.ok,
     links |-> SelectSeq(Uniq(j.links, <<>>), LAMBDA l : same_domain(l, site_base))]

\* extract_links(html, base_url) of a scraper whose base is site_base
extract_links(html, base_url, site_base) ==
    FilterLinks(JoinLinks(html.links, base_url), site_base)

\* path patterns crawl() refuses to enqueue
ExcludedPatterns ==
    {<<"/", "w", "p", "-", "a", "d", "m", "i", "n">>,
     <<"/", "w", "p", "-", "c", "o", "n", "t", "e", "n", "t", "/">>,
     <<"/", "f", "e", "e", "d">>, <<"/", "?", "s", "=">>}

\* markers of dynamic content that make crawl() fall back to the renderer
DynamicMarkers ==
    {<<"l", "o", "a", "d", " ", "m", "o", "r", "e">>,
     <<"a", "d", "m", "i", "n", "-", "a", "j", "a", "x">>,
     <<"w", "p", "-", "j", "s", "o", "n">>,
     <<"i", "n", "f", "i", "n", "i", "t", "e">>}

\* save_page's file key
PageKey(url) ==
    LET key == Replace(Replace(url, <<":", "/", "/">>, <<"_">>), <<"/">>, <<"_", "_">>)
    IN  Take(key, IF Len(key) < KeyMax THEN Len(key) ELSE KeyMax)

(* ------------------------------------------------------------------------ *)
(* urllib.robotparser.RobotFileParser as driven by __init__ and can_fetch    *)
(* ------------------------------------------------------------------------ *)

RECURSIVE quote(_)
\* urllib.parse.quote (safe = "/")
quote(s) ==
    IF s = <<>> THEN <<>>
    ELSE (IF s[1] \in SafeChars \/ s[1] = "/" THEN <<s[1]>>
          ELSE IF s[1] = " " THEN <<"%", "2", "0">>
          ELSE IF s[1] \in DOMAIN PctCode THEN PctCode[s[1]]
          ELSE <<s[1]>>) \o quote(Tail(s))

\* outcomes of RobotFileParser.read() in __init__
RobotsLoads == {"ok", "http401", "http404", "http500", "unreachable", "undecodable"}

\* the parser after __init__'s try block, for a robots.txt with the given rules
LoadRobots(load, rules) ==
    [disallow_all |-> load = "http401",
     allow_all    |-> load = "http404",
     last_checked |-> load = "ok",
     rules        |-> IF load = "ok" THEN rules ELSE <<>>]

RECURSIVE Allowance(_, _)
\* Entry.allowance: the first rule line that applies decides
Allowance(rules, filename) ==
    IF rules = <<>> THEN TRUE
    ELSE IF rules[1].path = <<"*">> \/ StartsWith(filename, rules[1].path)
         THEN rules[1].allow
         ELSE Allowance(Tail(rules), filename)

\* the path RobotFileParser.can_fetch matches the rule lines against
RobotsFilename(p) ==
    OrRoot(quote(urlunparse([p EXCEPT !.scheme = <<>>, !.netloc = <<>>])))

\* RobotFileParser.can_fetch on a parsed url; True when urlparse raised
CanFetchParsed(parser, p) ==
    IF parser.disallow_all THEN FALSE
    ELSE IF parser.allow_all THEN TRUE
    ELSE IF ~parser.last_checked THEN FALSE
    ELSE IF ~p.ok THEN TRUE
    ELSE Allowance(parser.rules, RobotsFilename(p))

\* GIKIScraper.can_fetch: RobotFileParser.can_fetch, True when it raises
can_fetch_rp(parser, url) == CanFetchParsed(parser, urlparse(unquote(url)))

(* ------------------------------------------------------------------------ *)
(* The crawled web: a few small sites under the base URL                     *)
(* ------------------------------------------------------------------------ *)

\* BASE_URL after rstrip("/")
base_url == HTTPS \o <<":", "/", "/", "x", ".", "e", "d", "u">>

\* the seed of __init__
SeedUrl == normalize_url(base_url \o <<"/", "e", "v", "e", "n", "t", "s", "/">>)

U(path) == base_url \o path

Doc(n, snip, regs, hrefs) ==
    [len |-> n, snippet |-> snip, parses |-> TRUE, title |-> "title",
     description |-> "", regions |-> regs, text |-> <<>>, links |-> hrefs]

\* an entry of a site: the status of the plain GET (0: network error), its
\* body, and what the browser returns (None: the driver raises)
Entry(status, html, rendered) == [status |-> status, html |-> html, rendered |-> rendered]

Static(html) == Entry(200, html, Some(html))

EmptyDoc == Doc(0, <<>>, <<>>, <<>>)

ErrorPage == Doc(300, <<>>, [body |-> Words("notfound", 3, " ")], <<>>)

Sites == {"e2e", "fetch", "links", "chain", "thin", "keys"}

\* seed -> A (200 words), B (10 words), C (A's text, other whitespace)
SiteE2E ==
    (U(<<"/", "e", "v", "e", "n", "t", "s">>) :> Static(Doc(5000, <<>>, [main |-> Words("s", 40, " ")],
                              <<<<"/", "a">>, <<"/", "b">>, <<"/", "c">>>>)))
    @@ (U(<<"/", "a">>) :> Static(Doc(9000, <<>>, [body |-> Words("a", 200, " ")], <<>>)))
    @@ (U(<<"/", "b">>) :> Static(Doc(2000, <<>>, [body |-> Words("b", 10, " ")], <<>>)))
    @@ (U(<<"/", "c">>) :> Static(Doc(9500, <<>>, [body |-> <<"\n">> \o Words("a", 200, "\t") \o <<" ", " ">>],
                           <<>>)))

\* pages that exercise the fetch heuristic, the robots gate and the threshold
SiteFetch ==
    (U(<<"/", "e", "v", "e", "n", "t", "s">>) :> Static(Doc(5000, <<>>, [article |-> Words("s", 30, " "),
                                           body |-> Words("z", 5, " ")],
                              <<<<"/", "p">>, <<"/", "q">>, <<"/", "x">>, <<"/", "t">>, <<"/", "u">>>>)))
    @@ (U(<<"/", "p">>) :> Entry(200, Doc(500, <<>>, [body |-> Words("p", 10, " ")], <<>>),
                       Some(Doc(4000, <<>>, [body |-> Words("p", 35, " ")], <<<<"/", "v">>>>))))
    @@ (U(<<"/", "q">>) :> Entry(404, EmptyDoc,
                       Some(Doc(3000, <<>>, [role_main |-> Words("s", 30, "\n")], <<>>))))
    @@ (U(<<"/", "x">>) :> Static(Doc(5000, <<>>, [body |-> Words("x", 60, " ")], <<>>)))
    @@ (U(<<"/", "t">>) :> Entry(200, Doc(900, <<"L", "o", "a", "d", " ", "M", "o", "r", "e">>, [id_content |-> Words("t", 29, " ")],
                                <<<<"/", "w">>>>),
                       None))
    @@ (U(<<"/", "u">>) :> Static(Doc(5000, <<>>, [body |-> Words("p", 10, "\n")], <<>>)))
    @@ (U(<<"/", "v">>) :> Entry(0, EmptyDoc, None))
    @@ (U(<<"/", "w">>) :> Static(Doc(5000, <<>>, [body |-> Words("w", 30, " ")], <<>>)))

\* links that need canonicalisation, a duplicate page and a malformed href
SiteLinks ==
    (U(<<"/", "e", "v", "e", "n", "t", "s">>) :> Static(Doc(5000, <<>>, [body |-> Words("s", 31, " ")],
                              <<<<"/", "a", "/">>, <<"/", "a", "#", "t", "o", "p">>, <<"/", "b", "?", "u", "t", "m", "_", "s", "o", "u", "r", "c", "e", "=", "1", "&", "i", "d", "=", "5">>, <<"m", "a", "i", "l", "t", "o", ":", "x">>, <<"h", "t", "t", "p", "s", ":", "/", "/", "n", "o", "t", "x", ".", "e", "d", "u", "/">>, <<" ", "/", "w", "p", "-", "a", "d", "m", "i", "n", "/", "z", " ">>,
                                <<"/", "d", ";", "/">>, <<"/", "d">>, <<"/", "/", "S", "U", "B", ".", "x", ".", "e", "d", "u", "/", "k">>, <<"/", "m">>>>)))
    @@ (U(<<"/", "a">>) :> Static(Doc(5000, <<>>, [div_content |-> Words("k", 40, " ")], <<<<".", ".", "/", "e", "v", "e", "n", "t", "s">>>>)))
    @@ (U(<<"/", "b", "?", "i", "d", "=", "5">>) :> Static(Doc(5000, <<>>, [body |-> Words("k", 40, "\n")], <<>>)))
    @@ (U(<<"/", "d">>) :> Static(Doc(5000, <<>>, [body |-> Words("d", 30, " ")], <<>>)))
    @@ (<<"h", "t", "t", "p", "s", ":", "/", "/", "S", "U", "B", ".", "x", ".", "e", "d", "u", "/", "k">> :> Static(Doc(5000, <<>>, [body |-> Words("n", 30, " ")], <<>>)))
    @@ (U(<<"/", "m">>) :> Static(Doc(5000, <<>>, [body |-> Words("m", 32, " ")], <<<<"h", "t", "t", "p", ":", "/", "/", "[", "b", "a", "d">>>>)))

\* a chain of pages closed into a cycle
SiteChain ==
    (U(<<"/", "e", "v", "e", "n", "t", "s">>) :> Static(Doc(5000, <<>>, [body |-> Words("c0", 30, " ")], <<<<"/", "a">>>>)))
    @@ (U(<<"/", "a">>) :> Static(Doc(5000, <<>>, [body |-> Words("c1", 30, " ")], <<<<"/", "b">>>>)))
    @@ (U(<<"/", "b">>) :> Static(Doc(5000, <<>>, [body |-> Words("c2", 30, " ")], <<<<"/", "c">>>>)))
    @@ (U(<<"/", "c">>) :> Static(Doc(5000, <<>>, [body |-> Words("c3", 30, " ")], <<<<"/", "d">>>>)))
    @@ (U(<<"/", "d">>) :> Static(Doc(5000, <<>>, [body |-> Words("c4", 30, " ")], <<<<"/", "e", "v", "e", "n", "t", "s", "/">>>>)))

\* a page below the word threshold that carries the only link to another page
SiteThin ==
    (U(<<"/", "e", "v", "e", "n", "t", "s">>) :> Static(Doc(5000, <<>>, [body |-> Words("h0", 30, " ")], <<<<"/", "a">>>>)))
    @@ (U(<<"/", "a">>) :> Static(Doc(5000, <<>>, [body |-> Words("h1", 29, " ")], <<<<"/", "b">>>>)))
    @@ (U(<<"/", "b">>) :> Static(Doc(5000, <<>>, [body |-> Words("h2", 30, " ")], <<>>)))

\* two pages whose URLs differ only in "/" against "__"; the first of them
\* links to the second, to a page that does not exist, to a short page the
\* renderer fails on and to a page no fetch gets
SiteKeys ==
    (U(<<"/", "e", "v", "e", "n", "t", "s">>) :> Static(Doc(5000, <<>>, [body |-> Words("g0", 30, " ")],
                              <<<<"/", "a", "/", "b">>, <<"/", "a", "_", "_", "b">>>>)))
    @@ (U(<<"/", "a", "/", "b">>) :> Static(Doc(5000, <<>>, [body |-> Words("g1", 30, " ")],
                              <<<<"/", "z", "1">>, <<"/", "a", "_", "_", "b">>, <<"/", "z", "2">>,
                                <<"/", "z", "3">>>>)))
    @@ (U(<<"/", "a", "_", "_", "b">>) :> Static(Doc(5000, <<>>, [body |-> Words("g2", 30, " ")], <<>>)))
    @@ (U(<<"/", "z", "2">>) :> Entry(200, Doc(500, <<>>, [body |-> Words("g3", 31, " ")], <<>>), None))
    @@ (U(<<"/", "z", "3">>) :> Entry(0, EmptyDoc, None))

Web(s) ==
    CASE s = "e2e" -> SiteE2E
      [] s = "fetch" -> SiteFetch
      [] s = "links" -> SiteLinks
      [] s = "chain" -> SiteChain
      [] s = "thin" -> SiteThin
      [] s = "keys" -> SiteKeys

\* the rule lines of the site's robots.txt
RobotsTxt(s) ==
    IF s = "fetch" THEN <<[path |-> <<"/", "x">>, allow |-> FALSE]>> ELSE <<>>

\* what the network serves for url
Lookup(s, url) ==
    IF url \in DOMAIN Web(s) THEN Web(s)[url] ELSE Entry(404, EmptyDoc, Some(ErrorPage))

(* ------------------------------------------------------------------------ *)
(* State                                                                     *)
(* ------------------------------------------------------------------------ *)

\* bounds of the model
MaxBudget == 6

VARIABLES
    site,          \* which of the sites the base URL serves
    max_pages,     \* GIKIScraper.max_pages
    use_renderer,  \* USE_RENDERER
    robots_load,   \* how rp.read() ended in __init__
    rp,            \* GIKIScraper.rp
    driver,        \* GIKIScraper.driver: "none", "open" or "quit"
    driver_ready,  \* GIKIScraper.driver_ready
    visited_urls,  \* GIKIScraper.visited_urls
    to_visit,      \* GIKIScraper.to_visit
    records,       \* GIKIScraper.records
    seen_hashes,   \* GIKIScraper.seen_hashes
    files,         \* the per-page files of SAVE_DIR, by key
    agg_file,      \* the file at AGG_PATH
    stats_file,    \* the file at STATS_PATH
    pc,            \* position of main()
    exc,           \* the exception main() is propagating
    log,           \* one entry per loop iteration of crawl()
    save_calls,    \* one entry per invocation of save_aggregate()
    quit_calls,    \* number of driver.quit() calls
    nu_input,      \* the argument of a chain of normalize_url calls
    nu_trace,      \* the results of the chain so far
    ask_pc,        \* position of ask_question()
    question,      \* Query.question
    index_reply,   \* what index.search answers for the question
    llm_ok,        \* whether the chat completion request succeeds
    chunks,        \* ask_question's chunks
    response,      \* the JSONResponse of ask_question
    llm_calls,     \* one entry per call_groq_llm() call
    ct_pc,         \* position of a chunk_text() call
    ct_text,       \* chunk_text's text
    ct_max_words,  \* chunk_text's max_words
    ct_overlap,    \* chunk_text's overlap
    ct_chunks      \* what chunk_text returned

\* the state of the scraper and of main()
crawlerVars == <<site, max_pages, use_renderer, robots_load, rp, driver, driver_ready,
                 visited_urls, to_visit, records, seen_hashes, files, agg_file, stats_file,
                 pc, exc, log, save_calls, quit_calls>>

\* the state of a chain of normalize_url calls
normVars == <<nu_input, nu_trace>>

\* the state of one /ask request
askVars == <<ask_pc, question, index_reply, llm_ok, chunks, response, llm_calls>>

\* what a run of main() does not touch
\* the state of one chunk_text call
chunkVars == <<ct_pc, ct_text, ct_max_words, ct_overlap, ct_chunks>>

auxVars == <<normVars, askVars, chunkVars>>

vars == <<crawlerVars, normVars, askVars, chunkVars>>

\* no chain of normalize_url calls is under way
NormalizerOff == nu_input = <<>> /\ nu_trace = <<>>

\* no /ask request is under way
AskOff ==
    /\ ask_pc = "off"
    /\ question = <<>>
    /\ index_reply = <<>>
    /\ llm_ok = FALSE
    /\ chunks = <<>>
    /\ response = <<>>
    /\ llm_calls = <<>>

\* no chunk_text call is under way
ChunkOff ==
    /\ ct_pc = "off"
    /\ ct_text = <<>>
    /\ ct_max_words = 0
    /\ ct_overlap = 0
    /\ ct_chunks = <<>>

\* how _init_selenium ended: USE_RENDERER off, driver created and configured,
\* webdriver.Chrome raised, or set_page_load_timeout raised
DriverInits == {"disabled", "ok", "chrome_failed", "configure_failed"}

Init ==
    /\ site \in Sites
    /\ max_pages \in 0..MaxBudget
    /\ robots_load \in RobotsLoads
    /\ rp = LoadRobots(robots_load, RobotsTxt(site))
    /\ \E d \in DriverInits :
         /\ use_renderer = (d # "disabled")
         /\ driver = IF d \in {"ok", "configure_failed"} THEN "open" ELSE "none"
         /\ driver_ready = (d = "ok")
    /\ visited_urls = {}
    /\ to_visit = <<SeedUrl>>
    /\ records = <<>>
    /\ seen_hashes = {}
    /\ files = <<>>
    /\ agg_file = None
    /\ stats_file = None
    /\ pc = "crawl"
    /\ exc = "none"
    /\ log = <<>>
    /\ save_calls = <<>>
    /\ quit_calls = 0
    /\ NormalizerOff
    /\ AskOff
    /\ ChunkOff

(* ------------------------------------------------------------------------ *)
(* The fetchers and the gate, on the current state                           *)
(* ------------------------------------------------------------------------ *)

\* variant: the gate approves every URL
can_fetch_Open(url) == TRUE

can_fetch(url) == can_fetch_rp(rp, url)

\* "not html" for an Optional[str]
Falsy(h) == h = None \/ h[1].len = 0

\* fetch_via_requests(url)
fetch_via_requests(url) ==
    LET e == Lookup(site, url)
    IN  IF ~can_fetch(url) THEN None
        ELSE IF e.status = 0 \/ e.status >= 400 THEN None
        ELSE Some(e.html)

\* does fetch_via_requests reach session.get
RequestsGets(url) == can_fetch(url)

\* fetch_via_selenium(url)
fetch_via_selenium(url) ==
    IF ~driver_ready THEN None
    ELSE IF ~can_fetch(url) THEN None
    ELSE Lookup(site, url).rendered

\* does fetch_via_selenium reach driver.get
SeleniumGets(url) == driver_ready /\ can_fetch(url)

\* variant: the markers are matched without lower-casing the html
NeedsRenderer_CaseSensitive(h) ==
    \/ Falsy(h)
    \/ h[1].len < RenderThreshold
    \/ \E tok \in DynamicMarkers : Contains(h[1].snippet, tok)

\* the fallback condition of crawl(), without the USE_RENDERER conjunct
NeedsRenderer(h) ==
    \/ Falsy(h)
    \/ h[1].len < RenderThreshold
    \/ \E tok \in DynamicMarkers : Contains(Lower(h[1].snippet), tok)

\* does crawl() call fetch_via_selenium after a plain result h
Escalates(h) == NeedsRenderer(h) /\ use_renderer

\* variant: the rendered result replaces the plain one whatever it is
ChooseHtml_AlwaysRendered(plain, shtml) == shtml

\* the html crawl() goes on with
ChooseHtml(plain, shtml) == IF ~Falsy(shtml) THEN shtml ELSE plain

\* variant: any record is long enough
Acceptable_AnyLength(pr) == pr # None

\* "page_record and page_record.word_count >= 30"
Acceptable(pr) == pr # None /\ pr[1].word_count >= MinWords

RECURSIVE Enqueue_Inverted(_, _, _)
\* variant: the membership test of the enqueue loop is inverted
Enqueue_Inverted(queue, links, visited) ==
    IF links = <<>> THEN queue
    ELSE LET l == links[1]
             known == l \in visited \/ \E i \in 1..Len(queue) : queue[i] = l
             excluded == \E x \in ExcludedPatterns : Contains(Lower(l), x)
         IN  Enqueue_Inverted(IF ~known \/ excluded THEN queue ELSE Append(queue, l),
                              Tail(links), visited)

RECURSIVE Enqueue_Prepend(_, _, _)
\* variant: a new link goes to the front of the frontier
Enqueue_Prepend(queue, links, visited) ==
    IF links = <<>> THEN queue
    ELSE LET l == links[1]
             known == l \in visited \/ \E i \in 1..Len(queue) : queue[i] = l
             excluded == \E x \in ExcludedPatterns : Contains(Lower(l), x)
         IN  Enqueue_Prepend(IF known \/ excluded THEN queue ELSE <<l>> \o queue,
                             Tail(links), visited)

RECURSIVE Enqueue(_, _, _)
\* the enqueue loop of crawl()
Enqueue(queue, links, visited) ==
    IF links = <<>> THEN queue
    ELSE LET l == links[1]
             known == l \in visited \/ \E i \in 1..Len(queue) : queue[i] = l
             excluded == \E x \in ExcludedPatterns : Contains(Lower(l), x)
         IN  Enqueue(IF known \/ excluded THEN queue ELSE Append(queue, l),
                     Tail(links), visited)

(* ------------------------------------------------------------------------ *)
(* crawl(): one action per kind of loop iteration                            *)
(* ------------------------------------------------------------------------ *)

\* variant: the loop goes on while the budget is met
LoopGuard_Inclusive == to_visit # <<>> /\ Cardinality(visited_urls) <= max_pages

\* the while condition of crawl()
LoopGuard == to_visit # <<>> /\ Cardinality(visited_urls) < max_pages

LogEntry(popped, url, outcome, calls, gets, plain, pr, slept, raised, written) ==
    [popped |-> popped, url |-> url, outcome |-> outcome, calls |-> calls, gets |-> gets,
     visited_before |-> Cardinality(visited_urls),
     plain_len |-> IF plain = None THEN -1 ELSE plain[1].len,
     plain_snippet |-> IF plain = None THEN <<>> ELSE plain[1].snippet,
     record |-> pr, slept |-> slept, raised |-> raised, written |-> written]

\* variant: the interrupt handler does not save
AfterRaise_NoSaveOnInterrupt(raised) ==
    CASE raised = "KeyboardInterrupt" -> "close"
      [] raised = "Exception" -> "save_fatal"
      [] OTHER -> "crawl"

\* where main() goes when crawl() raises
AfterRaise(raised) ==
    CASE raised = "KeyboardInterrupt" -> "save_interrupt"
      [] raised = "Exception" -> "save_fatal"
      [] OTHER -> "crawl"

\* variant: no delay after a fetch that produced no HTML
SleepsAfter_NotOnFailure(outcome) ==
    outcome \in {"no-record", "below-threshold", "duplicate-content", "accepted"}

\* does an iteration that ends as outcome reach a time.sleep: the branch
\* without HTML and the end of the loop body do, the three "continue"
\* branches before the fetch do not
SleepsAfter(outcome) ==
    outcome \in {"fetch-failed", "no-record", "below-threshold", "duplicate-content",
                 "accepted"}

\* the popped URL is already visited, or off-domain: "continue" at once
CrawlSkip ==
    /\ pc = "crawl"
    /\ LoopGuard
    /\ LET url == normalize_url(Head(to_visit))
       IN  /\ url \in visited_urls \/ ~same_domain(url, base_url)
           /\ to_visit' = Tail(to_visit)
           /\ log' = Append(log, LogEntry(Head(to_visit), url,
                        IF url \in visited_urls THEN "skipped-duplicate-visit"
                        ELSE "skipped-offdomain",
                        <<>>, <<>>, None, None, FALSE, "none", FALSE))
    /\ UNCHANGED <<site, max_pages, use_renderer, robots_load, rp, driver, driver_ready,
                   visited_urls, records, seen_hashes, files, agg_file, stats_file,
                   pc, exc, save_calls, quit_calls>>
    /\ UNCHANGED auxVars

\* the gate denies the popped URL: visited, nothing else
CrawlBlocked ==
    /\ pc = "crawl"
    /\ LoopGuard
    /\ LET url == normalize_url(Head(to_visit))
       IN  /\ url \notin visited_urls
           /\ same_domain(url, base_url)
           /\ ~can_fetch(url)
           /\ to_visit' = Tail(to_visit)
           /\ visited_urls' = visited_urls \cup {url}
           /\ log' = Append(log, LogEntry(Head(to_visit), url, "skipped-robots",
                                          <<>>, <<>>, None, None,
                                          SleepsAfter("skipped-robots"), "none", FALSE))
    /\ UNCHANGED <<site, max_pages, use_renderer, robots_load, rp, driver, driver_ready,
                   records, seen_hashes, files, agg_file, stats_file,
                   pc, exc, save_calls, quit_calls>>
    /\ UNCHANGED auxVars

\* where a KeyboardInterrupt can arrive inside an iteration
Interrupts == {"none", "fetch", "save_page", "sleep"}

\* what one iteration computes for the canonical URL url before any state is
\* changed, in the order of the loop body: the plain fetch, the fallback, the
\* record, the dedup test, the links
IterLinks(url, plain, esc, html, pr, fresh, el) ==
    [plain |-> plain, esc |-> esc, pr |-> pr, fresh |-> fresh, links_ok |-> el.ok,
     queue |-> Enqueue(Tail(to_visit), el.links, visited_urls \cup {url}),
     result |-> IF Falsy(html) THEN "fetch-failed"
                ELSE IF pr = None THEN "no-record"
                ELSE IF ~Acceptable(pr) THEN "below-threshold"
                ELSE IF ~fresh THEN "duplicate-content"
                ELSE "accepted"]

IterDedup(url, plain, esc, html, pr, fresh) ==
    IterLinks(url, plain, esc, html, pr, fresh,
              IF fresh THEN extract_links(html[1], url, base_url)
              ELSE [ok |-> TRUE, links |-> <<>>])

\* variant: the digest is not looked up
Fresh_NoLookup(pr, seen) == Acceptable(pr)

\* variant: the word count is not part of the acceptance test
Fresh_IgnoreLength(pr, seen) == pr # None /\ content_hash(pr[1].content) \notin seen

\* is the record accepted: long enough and its digest not seen before
Fresh(pr, seen) == Acceptable(pr) /\ content_hash(pr[1].content) \notin seen

IterExtract(url, plain, esc, html, pr) ==
    IterDedup(url, plain, esc, html, pr, Fresh(pr, seen_hashes))

IterHtml(url, plain, esc, html) ==
    IterExtract(url, plain, esc, html,
                IF Falsy(html) THEN None ELSE extract_content(html[1], url))

IterPlain(url, plain, esc) ==
    IterHtml(url, plain, esc,
             IF esc THEN ChooseHtml(plain, fetch_via_selenium(url)) ELSE plain)

Iteration(url) == IterPlain(url, fetch_via_requests(url), Escalates(fetch_via_requests(url)))

\* the popped URL passes the gate: fetch, extract, dedup, persist, enqueue.
\* intr: where the user interrupts; disk_ok: whether save_page's write works
CrawlFetch ==
    /\ pc = "crawl"
    /\ LoopGuard
    /\ \E url \in {normalize_url(Head(to_visit))} :
        /\ url \notin visited_urls
        /\ same_domain(url, base_url)
        /\ can_fetch(url)
        /\ \E it \in {Iteration(url)}, intr \in Interrupts, disk_ok \in BOOLEAN :
            LET calls  == IF intr = "fetch" THEN <<"requests">>
                          ELSE <<"requests">> \o (IF it.esc THEN <<"selenium">> ELSE <<>>)
                gets   == (IF RequestsGets(url) THEN <<"requests">> ELSE <<>>)
                          \o (IF intr # "fetch" /\ it.esc /\ SeleniumGets(url)
                              THEN <<"selenium">> ELSE <<>>)
                raised == IF intr \in {"fetch", "save_page"} THEN "KeyboardInterrupt"
                          ELSE IF it.fresh /\ ~it.links_ok THEN "Exception"
                          ELSE IF intr = "sleep" THEN "KeyboardInterrupt"
                          ELSE "none"
                stored  == intr # "fetch" /\ it.fresh
                written == stored /\ intr # "save_page" /\ disk_ok
                linked  == stored /\ intr # "save_page" /\ it.links_ok
            IN  /\ intr = "save_page" => it.fresh
                /\ ~disk_ok => (it.fresh /\ intr \in {"none", "sleep"})
                /\ visited_urls' = visited_urls \cup {url}
                /\ seen_hashes' = IF stored
                                  THEN seen_hashes \cup {content_hash(it.pr[1].content)}
                                  ELSE seen_hashes
                /\ records' = IF stored THEN Append(records, it.pr[1]) ELSE records
                /\ files' = IF written THEN (PageKey(it.pr[1].url) :> it.pr[1]) @@ files
                            ELSE files
                /\ to_visit' = IF linked THEN it.queue ELSE Tail(to_visit)
                /\ log' = Append(log,
                            LogEntry(Head(to_visit), url,
                                     IF intr = "fetch" THEN "interrupted" ELSE it.result,
                                     calls, gets, it.plain,
                                     IF intr = "fetch" THEN None ELSE it.pr,
                                     /\ SleepsAfter(it.result)
                                     /\ raised = "none"
                                        \/ (intr = "sleep" /\ raised # "Exception"),
                                     raised, written))
                /\ pc' = AfterRaise(raised)
    /\ UNCHANGED <<site, max_pages, use_renderer, robots_load, rp, driver, driver_ready,
                   agg_file, stats_file, exc, save_calls, quit_calls>>
    /\ UNCHANGED auxVars

\* the while condition fails: crawl() returns
CrawlReturn ==
    /\ pc = "crawl"
    /\ ~LoopGuard
    /\ pc' = "save_normal"
    /\ UNCHANGED <<site, max_pages, use_renderer, robots_load, rp, driver, driver_ready,
                   visited_urls, to_visit, records, seen_hashes, files, agg_file,
                   stats_file, exc, log, save_calls, quit_calls>>
    /\ UNCHANGED auxVars

(* ------------------------------------------------------------------------ *)
(* main(): save_aggregate() on each route, then the finally clause           *)
(* ------------------------------------------------------------------------ *)

RECURSIVE SumWords(_)
SumWords(rs) == IF rs = <<>> THEN 0 ELSE rs[1].word_count + SumWords(Tail(rs))

\* the stats object of save_aggregate; the average is kept as a fraction
Stats(rs, visited) ==
    [total_pages |-> Len(rs),
     total_words |-> SumWords(rs),
     urls_visited |-> Cardinality(visited),
     average_words_per_page |-> <<SumWords(rs), Len(rs)>>]

\* how a save_aggregate() that has records to write can end
SaveOutcomes == {"ok", "makedirs_raises", "agg_write_raises", "stats_write_raises",
                 "interrupted"}

\* what save_aggregate() raises
SaveRaises(io) ==
    CASE io = "ok" -> "none"
      [] io = "interrupted" -> "KeyboardInterrupt"
      [] OTHER -> "Exception"

\* main() after a save_aggregate() called at position p raised r:
\* the next position and the exception that propagates
MainAfterSave(p, r) ==
    CASE p = "save_normal" /\ r = "none" -> [pc |-> "close", exc |-> "none"]
      [] p = "save_normal" /\ r = "KeyboardInterrupt" -> [pc |-> "save_interrupt", exc |-> "none"]
      [] p = "save_normal" /\ r = "Exception" -> [pc |-> "save_fatal", exc |-> "none"]
      [] p = "save_interrupt" -> [pc |-> "close", exc |-> r]
      [] p = "save_fatal" -> [pc |-> "close", exc |-> IF r = "none" THEN "Exception" ELSE r]

\* variant: the aggregate counts as written only when the whole call succeeds
WritesAggregate_OnlyOnSuccess(io) == io = "ok"

\* does a save_aggregate() that ends as io get past the dump of the records
WritesAggregate(io) == io \in {"ok", "stats_write_raises"}

\* does a save_aggregate() that ends as io get past the dump of the stats
WritesStats(io) == io = "ok"

\* save_aggregate(), called from the try body or from an except clause
SaveAggregate ==
    /\ pc \in {"save_normal", "save_interrupt", "save_fatal"}
    /\ \E io \in SaveOutcomes :
        LET after == MainAfterSave(pc, SaveRaises(io))
        IN  /\ records = <<>> => io = "ok"
            /\ save_calls' = Append(save_calls,
                                [route |-> pc, records |-> records, quit_calls |-> quit_calls,
                                 exc |-> exc, io |-> io])
            /\ agg_file' = IF records # <<>> /\ WritesAggregate(io)
                           THEN Some(records) ELSE agg_file
            /\ stats_file' = IF records # <<>> /\ WritesStats(io)
                             THEN Some(Stats(records, visited_urls)) ELSE stats_file
            /\ pc' = after.pc
            /\ exc' = after.exc
    /\ UNCHANGED <<site, max_pages, use_renderer, robots_load, rp, driver, driver_ready,
                   visited_urls, to_visit, records, seen_hashes, files, log, quit_calls>>
    /\ UNCHANGED auxVars

\* variant: only a configured driver is quit
ClosesDriver_IfReady(d) == d # "none" /\ driver_ready

\* does close() call driver.quit()
ClosesDriver(d) == d # "none"

\* the finally clause: close()
Close ==
    /\ pc = "close"
    /\ quit_calls' = IF ClosesDriver(driver) THEN quit_calls + 1 ELSE quit_calls
    /\ driver' = IF ClosesDriver(driver) THEN "quit" ELSE driver
    /\ pc' = "done"
    /\ UNCHANGED <<site, max_pages, use_renderer, robots_load, rp, driver_ready,
                   visited_urls, to_visit, records, seen_hashes, files, agg_file,
                   stats_file, exc, log, save_calls>>
    /\ UNCHANGED auxVars

Next ==
    \/ CrawlSkip
    \/ CrawlBlocked
    \/ CrawlFetch
    \/ CrawlReturn
    \/ SaveAggregate
    \/ Close

Spec == Init /\ [][Next]_vars

TypeOK ==
    /\ site \in Sites
    /\ max_pages \in 0..MaxBudget
    /\ pc \in {"crawl", "save_normal", "save_interrupt", "save_fatal", "close", "done"}
    /\ exc \in {"none", "KeyboardInterrupt", "Exception"}
    /\ driver \in {"none", "open", "quit"}
    /\ quit_calls \in Nat

(* ------------------------------------------------------------------------ *)
(* normalize_url as a function: a chain of calls on one input                *)
(* ------------------------------------------------------------------------ *)

\* the scraper is not running
CrawlerOff ==
    /\ site = "e2e"
    /\ max_pages = 0
    /\ use_renderer = FALSE
    /\ robots_load = "ok"
    /\ rp = LoadRobots("ok", <<>>)
    /\ driver = "none"
    /\ driver_ready = FALSE
    /\ visited_urls = {}
    /\ to_visit = <<>>
    /\ records = <<>>
    /\ seen_hashes = {}
    /\ files = <<>>
    /\ agg_file = None
    /\ stats_file = None
    /\ pc = "done"
    /\ exc = "none"
    /\ log = <<>>
    /\ save_calls = <<>>
    /\ quit_calls = 0

\* the parts the input URLs are put together from
InSchemes ==
    {<<"h", "t", "t", "p", "s", ":", "/", "/">>,
     <<"h", "t", "t", "p", ":", "/", "/">>,
     <<"H", "T", "T", "P", "S", ":", "/", "/">>,
     <<"/", "/">>}

InHosts ==
    {<<"x", ".", "e", "d", "u">>,
     <<"s", "u", "b", ".", "x", ".", "e", "d", "u">>}

InPaths ==
    {<<>>,
     <<"/">>,
     <<"/", "a">>,
     <<"/", "a", "/">>,
     <<"/", "a", "/", "/">>,
     <<"/", "a", ";", "/">>,
     <<"/", "a", ";", "p">>,
     <<"/", "a", "/", "b", "/">>}

InQueries ==
    {<<>>,
     <<"?", "i", "d", "=", "5">>,
     <<"?", "u", "t", "m", "_", "s", "o", "u", "r", "c", "e", "=", "1">>,
     <<"?", "U", "T", "M", "_", "x", "=", "1", "&", "i", "d", "=", "5">>,
     <<"?", "f", "b", "c", "l", "i", "d", "=", "z", "&", "a", "=", "b", "%", "2", "0", "c">>,
     <<"?", "a", "=">>}

InFragments ==
    {<<>>,
     <<"#", "t", "o", "p">>}

UrlInputs ==
    {sc \o h \o p \o q \o f :
        sc \in InSchemes, h \in InHosts, p \in InPaths, q \in InQueries, f \in InFragments}

\* how many times normalize_url is applied in a row
MaxPasses == 2

NormalizeInit ==
    /\ nu_input \in UrlInputs
    /\ nu_trace = <<>>
    /\ CrawlerOff
    /\ AskOff
    /\ ChunkOff

\* url = normalize_url(url)
NormalizeApply ==
    /\ Len(nu_trace) < MaxPasses
    /\ nu_trace' = Append(nu_trace,
                          normalize_url(IF nu_trace = <<>> THEN nu_input
                                        ELSE nu_trace[Len(nu_trace)]))
    /\ UNCHANGED <<nu_input, crawlerVars, askVars, chunkVars>>

NextNormalize == NormalizeApply

SpecNormalize == NormalizeInit /\ [][NextNormalize]_vars

(* ------------------------------------------------------------------------ *)
(* The /ask endpoint (app.py) over retrieve_chunks, build_context and        *)
(* call_groq_llm (test.py)                                                   *)
(* ------------------------------------------------------------------------ *)

\* how many hits the index returns at most in the model
MaxHits == 2

\* dict.get(key, "") on an entry that may be missing
OrEmpty(o) == IF o = None THEN "" ELSE o[1]

\* dict.get(key, 0.0)
OrZero(o) == IF o = None THEN 0 ELSE o[1]

\* a hit as the index returns it: the text under "chunk_text" or (old
\* metadata format) under "text", the source and the score, each present or not
RawHits ==
    [chunk_text : {None, Some("c1")}, text : {None, Some("c2")},
     source : {None, Some("s1")}, score : {None, Some(1)}]

SeqsUpTo(S, n) == UNION {[1..k -> S] : k \in 0..n}

\* index.search: it accepts the "fields" argument, it raises TypeError on it
\* and answers the call without it, or it raises something else
SearchModes == {"fields", "legacy", "error"}

IndexReplies == [mode : SearchModes, hits : SeqsUpTo(RawHits, MaxHits)]

Questions == {"q1", "q2"}

\* a chunk from a hit of result.hits
ChunkOfHit(hit) ==
    [text |-> OrEmpty(hit.chunk_text), source |-> OrEmpty(hit.source), score |-> OrZero(hit.score)]

\* a chunk from a hit of result.matches (old metadata format)
ChunkOfMatch(hit) ==
    [text |-> IF OrEmpty(hit.chunk_text) # "" THEN OrEmpty(hit.chunk_text) ELSE OrEmpty(hit.text),
     source |-> OrEmpty(hit.source), score |-> OrZero(hit.score)]

\* retrieve_chunks(query_text) when index.search answers with reply
retrieve_chunks(reply) ==
    [raises |-> reply.mode = "error",
     chunks |-> IF reply.mode = "fields"
                THEN [i \in 1..Len(reply.hits) |-> ChunkOfHit(reply.hits[i])]
                ELSE [i \in 1..Len(reply.hits) |-> ChunkOfMatch(reply.hits[i])]]

\* build_context(chunks): one numbered block per chunk, in order
build_context(cs) ==
    [i \in 1..Len(cs) |-> [n |-> i, score |-> cs[i].score, source |-> cs[i].source,
                           text |-> cs[i].text]]

\* the content of the first choice of the completion for (context, question)
LlmAnswer(context, q) == <<"llm", context, q>>

IDontKnow == "I don't know"

\* variant: hits without text count as no hits
NoChunks_NoText(cs) == \A i \in 1..Len(cs) : cs[i].text = ""

\* "not chunks"
NoChunks(cs) == cs = <<>>

AskInit ==
    /\ ask_pc = "start"
    /\ question \in Questions
    /\ index_reply \in IndexReplies
    /\ llm_ok \in BOOLEAN
    /\ chunks = <<>>
    /\ response = None
    /\ llm_calls = <<>>
    /\ CrawlerOff
    /\ NormalizerOff
    /\ ChunkOff

\* chunks = retrieve_chunks(query.question)
Retrieve ==
    /\ ask_pc = "start"
    /\ ask_pc' = IF retrieve_chunks(index_reply).raises THEN "failed" ELSE "retrieved"
    /\ chunks' = IF retrieve_chunks(index_reply).raises THEN chunks
                 ELSE retrieve_chunks(index_reply).chunks
    /\ UNCHANGED <<question, index_reply, llm_ok, response, llm_calls, crawlerVars, normVars, chunkVars>>

\* if not chunks: return {"answer": "I don't know"}
ReplyUnknown ==
    /\ ask_pc = "retrieved"
    /\ NoChunks(chunks)
    /\ response' = Some([answer |-> IDontKnow])
    /\ ask_pc' = "done"
    /\ UNCHANGED <<question, index_reply, llm_ok, chunks, llm_calls, crawlerVars, normVars, chunkVars>>

\* context = build_context(chunks); answer = call_groq_llm(context, question)
ReplyFromLlm ==
    /\ ask_pc = "retrieved"
    /\ ~NoChunks(chunks)
    /\ llm_calls' = Append(llm_calls, [context |-> build_context(chunks), question |-> question])
    /\ response' = IF llm_ok THEN Some([answer |-> LlmAnswer(build_context(chunks), question)])
                   ELSE response
    /\ ask_pc' = IF llm_ok THEN "done" ELSE "failed"
    /\ UNCHANGED <<question, index_reply, llm_ok, chunks, crawlerVars, normVars, chunkVars>>

NextAsk == Retrieve \/ ReplyUnknown \/ ReplyFromLlm

SpecAsk == AskInit /\ [][NextAsk]_vars

(* ------------------------------------------------------------------------ *)
(* chunk_text (preprocess.py)                                                *)
(* ------------------------------------------------------------------------ *)

\* the largest max_words, the longest text in words and the largest negative
\* overlap of the model
MaxChunkWords == 4

MaxTextWords == 6

MaxGap == 1

\* " ".join(words)
JoinWords(ws) ==
    [k \in 1..(IF ws = <<>> THEN 0 ELSE 2 * Len(ws) - 1) |->
        IF k % 2 = 1 THEN ws[(k + 1) \div 2] ELSE " "]

RECURSIVE RangeFrom(_, _, _)
\* list(range(i, stop, step)) for a positive step
RangeFrom(i, stop, step) ==
    IF i >= stop THEN <<>> ELSE <<i>> \o RangeFrom(i + step, stop, step)

\* s[i:j] for 0 <= i <= j: the end is clipped to the length of s
Slice(s, i, j) == SubSeq(s, i + 1, IF j < Len(s) THEN j ELSE Len(s))

\* variant: one word is left out between a window and the next
ChunkStep_Skip(max_words, overlap) == max_words + 1

\* the step of the range of chunk_text
ChunkStep(max_words, overlap) == max_words - overlap

ChunksAt(words, starts, max_words) ==
    [k \in 1..Len(starts) |-> JoinWords(Slice(words, starts[k], starts[k] + max_words))]

ChunksOf(words, max_words, overlap) ==
    ChunksAt(words, RangeFrom(0, Len(words), ChunkStep(max_words, overlap)), max_words)

\* chunk_text(text, max_words, overlap)
chunk_text(text, max_words, overlap) == ChunksOf(SplitWords(text), max_words, overlap)

\* the texts of the model: up to MaxTextWords words, separated by one
\* whitespace character or by two, with or without whitespace around them
TextWords == {"a", "b"}

TextSeparators == {<<" ">>, <<"\n", "\t">>}

TextPaddings == {<<>>, <<" ">>}

PlaceWords(ws, sep, pad) ==
    pad \o Join([k \in 1..Len(ws) |-> <<ws[k]>>], sep) \o pad

ChunkTexts ==
    {PlaceWords(ws, sep, pad) :
        ws \in SeqsUpTo(TextWords, MaxTextWords), sep \in TextSeparators, pad \in TextPaddings}

ChunkInit ==
    /\ ct_pc = "call"
    /\ ct_text \in ChunkTexts
    /\ ct_max_words \in 0..MaxChunkWords
    /\ ct_overlap \in (0 - MaxGap)..(ct_max_words - 1)
    /\ ct_chunks = <<>>
    /\ CrawlerOff
    /\ NormalizerOff
    /\ AskOff

\* chunks = chunk_text(text, max_words, overlap)
ChunkApply ==
    /\ ct_pc = "call"
    /\ ct_chunks' = chunk_text(ct_text, ct_max_words, ct_overlap)
    /\ ct_pc' = "returned"
    /\ UNCHANGED <<ct_text, ct_max_words, ct_overlap, crawlerVars, normVars, askVars>>

NextChunk == ChunkApply

SpecChunk == ChunkInit /\ [][NextChunk]_vars

(* ------------------------------------------------------------------------ *)
(* Properties                                                                *)
(* ------------------------------------------------------------------------ *)

\* iterations that fetched a page and extracted content from it
Extracted == {i \in 1..Len(log) : log[i].record # None}

ContentAt(i) == log[i].record[1].content

\* positions of the entries of rs holding content c
EntriesWith(rs, c) == {k \in 1..Len(rs) : rs[k].content = c}

\* positions of the records holding content c
RecordsWith(c) == EntriesWith(records, c)

\* the first iteration that extracted content c
FirstWith(c) ==
    CHOOSE i \in Extracted : ContentAt(i) = c /\ \A j \in Extracted : ContentAt(j) = c => i <= j

\* pairs of iterations on distinct URLs whose extracted content is identical
SameContentPairs ==
    {p \in Extracted \X Extracted :
        /\ p[1] < p[2]
        /\ log[p[1]].url # log[p[2]].url
        /\ ContentAt(p[1]) = ContentAt(p[2])}

\* C1 as stated: two distinct URLs, both fetched, with identical normalized
\* content always leave exactly one record with that content, the record of
\* the URL dequeued first.
C1_ExactlyOneRecord ==
    \A p \in SameContentPairs :
        /\ Cardinality(RecordsWith(ContentAt(p[1]))) = 1
        /\ \A k \in RecordsWith(ContentAt(p[1])) :
              records[k].url = log[FirstWith(ContentAt(p[1]))].url

\* C1 (amended): for two distinct URLs, both fetched, with identical normalized
\* content of at least 30 words, at most one record (and at most one entry of
\* the aggregate) holds that content and it is the record of the URL dequeued
\* first; there is exactly one unless the digest of the content was already
\* taken by different content.
C1_DedupByContent ==
    \A p \in SameContentPairs :
        Len(SplitWords(ContentAt(p[1]))) >= 30 =>
            /\ Cardinality(RecordsWith(ContentAt(p[1]))) <= 1
            /\ \A k \in RecordsWith(ContentAt(p[1])) :
                  records[k].url = log[FirstWith(ContentAt(p[1]))].url
            /\ agg_file # None =>
                  /\ Cardinality(EntriesWith(agg_file[1], ContentAt(p[1]))) <= 1
                  /\ \A k \in EntriesWith(agg_file[1], ContentAt(p[1])) :
                        agg_file[1][k].url = log[FirstWith(ContentAt(p[1]))].url
            /\ RecordsWith(ContentAt(p[1])) = {} =>
                  \E k \in 1..Len(records) :
                     /\ records[k].content # ContentAt(p[1])
                     /\ content_hash(records[k].content) = content_hash(ContentAt(p[1]))

\* C1 witness: a second URL served content of at least 30 words that an
\* earlier URL had served with other whitespace, and one record holds it.
C1_Witness ==
    \E p \in SameContentPairs :
        /\ Len(SplitWords(ContentAt(p[1]))) >= 30
        /\ Cardinality(RecordsWith(ContentAt(p[1]))) = 1
        /\ log[p[2]].outcome = "duplicate-content"
        /\ pc = "done"
        /\ agg_file = Some(records)

\* the range of a sequence
Range(q) == {q[i] : i \in 1..Len(q)}

\* C2: every record and every per-page file has word_count >= 30 (and that
\* many words); a fetched page with fewer than 30 words leaves no record, no
\* file and no digest: the digests are exactly those of the records.
C2_MinimumContent ==
    /\ \A r \in Range(records) :
          r.word_count >= 30 /\ Len(SplitWords(r.content)) = r.word_count
    /\ \A k \in DOMAIN files : files[k].word_count >= 30 /\ files[k] \in Range(records)
    /\ seen_hashes = {content_hash(r.content) : r \in Range(records)}
    /\ \A i \in Extracted :
          log[i].record[1].word_count < 30 =>
              /\ log[i].outcome = "below-threshold"
              /\ \A r \in Range(records) : r.url # log[i].url
              /\ \A k \in DOMAIN files : files[k].url # log[i].url

\* C2 witness: a page of 29 words was fetched and dropped while a page of
\* exactly 30 words was stored and written.
C2_Witness ==
    /\ \E i \in Extracted : log[i].record[1].word_count = 29
    /\ \E k \in DOMAIN files : files[k].word_count = 30

\* C3: a URL the robots policy disallows is never requested, by either
\* fetcher, and never has a record.
C3_RobotsCompliance ==
    /\ \A i \in 1..Len(log) :
          ~can_fetch_rp(rp, log[i].url) => log[i].gets = <<>> /\ log[i].record = None
    /\ \A r \in Range(records) : can_fetch_rp(rp, r.url)

\* C3 witness: a disallowed URL, linked from the accepted seed page, was
\* dequeued under a loaded robots.txt and nothing was requested for it.
C3_Witness ==
    /\ robots_load = "ok"
    /\ \E i \in 1..Len(log) :
          /\ log[i].outcome = "skipped-robots"
          /\ log[i].gets = <<>>
          /\ \E j \in 1..(i - 1) : log[j].outcome = "accepted"

\* the site's URLs and the canonical forms of what the frontier held
KnownUrls == DOMAIN Web(site) \cup {log[i].url : i \in 1..Len(log)}

\* C4 as stated: when loading robots.txt failed at start-up (unreachable,
\* undecodable, or a server error that leaves no policy loaded), the gate
\* approves every URL and the crawl blocks nothing.
C4_PermissiveOnLoadFailure ==
    robots_load \in {"unreachable", "undecodable", "http500"} =>
        /\ \A u \in KnownUrls : can_fetch(u)
        /\ \A i \in 1..Len(log) : log[i].outcome # "skipped-robots"

\* C5: the number of visited URLs never exceeds max_pages, and every loop
\* iteration (dequeue, fetch) starts with fewer than max_pages visited URLs.
C5_BudgetCeiling ==
    /\ Cardinality(visited_urls) <= max_pages
    /\ \A i \in 1..Len(log) :
          log[i].visited_before < max_pages

\* C5 witness: the crawl stopped on the budget with URLs still pending.
C5_Witness ==
    /\ pc = "save_normal"
    /\ to_visit # <<>>
    /\ max_pages > 1
    /\ Cardinality(visited_urls) = max_pages

\* the html crawl() works on for url, after the fallback
HtmlAfter(url, plain) ==
    IF Escalates(plain) THEN ChooseHtml(plain, fetch_via_selenium(url)) ELSE plain

PageHtml(url) == HtmlAfter(url, fetch_via_requests(url))

\* the in-domain links of the page at url, in canonical form
LinksOf(url) ==
    IF Falsy(PageHtml(url)) THEN {}
    ELSE {normalize_url(l) : l \in Range(extract_links(PageHtml(url)[1], url, base_url).links)}

RECURSIVE ReachFrom(_)
ReachFrom(S) ==
    IF UNION {LinksOf(u) : u \in S} \subseteq S THEN S
    ELSE ReachFrom(S \cup UNION {LinksOf(u) : u \in S})

\* the pages of the in-domain link graph reachable from the seed
Reachable == ReachFrom({SeedUrl})

Min(a, b) == IF a < b THEN a ELSE b

\* the gate approves every URL of the link graph R
AllAllowed(R) == \A u \in R : can_fetch(u)

\* every page of the link graph R yields a record crawl() accepts: html comes
\* back, it has at least 30 words, no two pages share a digest, and its links
\* resolve
PageRecordOf(url) ==
    IF Falsy(PageHtml(url)) THEN None ELSE extract_content(PageHtml(url)[1], url)

AllAccepted(R) ==
    /\ \A u \in R :
          /\ Acceptable(PageRecordOf(u))
          /\ extract_links(PageHtml(u)[1], u, base_url).ok
    /\ \A u, v \in R :
          u # v => content_hash(PageRecordOf(u)[1].content) # content_hash(PageRecordOf(v)[1].content)

RanToCompletion ==
    /\ pc = "done"
    /\ exc = "none"
    /\ Len(save_calls) = 1
    /\ \A i \in 1..Len(log) : log[i].raised = "none"

\* C7: on the site seed -> A (200 words), B (10 words), C (A's content), all
\* allowed and with a budget of at least 4, a completed run ends with
\* visited = {seed, A, B, C}, records of seed and A only, and total_pages = 2.
C7_EndToEnd ==
    (site = "e2e" /\ (\A u \in DOMAIN SiteE2E : can_fetch(u)) /\ max_pages >= 4
     /\ RanToCompletion) =>
        /\ visited_urls = {SeedUrl, U(<<"/", "a">>), U(<<"/", "b">>), U(<<"/", "c">>)}
        /\ [i \in 1..Len(records) |-> records[i].url] = <<SeedUrl, U(<<"/", "a">>)>>
        /\ agg_file = Some(records)
        /\ stats_file # None
        /\ stats_file[1].total_pages = 2

\* C7 witness: the scenario ran to completion and C was dequeued and fetched.
C7_Witness ==
    /\ site = "e2e"
    /\ max_pages >= 4
    /\ RanToCompletion
    /\ \E i \in 1..Len(log) :
          log[i].url = U(<<"/", "c">>) /\ log[i].gets # <<>> /\ log[i].record # None

\* C8: for every URL that passes the gate the plain fetch is called first,
\* and the rendered fetch is called exactly when rendering is enabled and the
\* plain result is nothing, shorter than 800, or holds a marker in any case.
C8_FetchSelection ==
    \A i \in 1..Len(log) :
        /\ log[i].outcome \notin {"skipped-duplicate-visit", "skipped-offdomain", "skipped-robots"}
              => log[i].calls # <<>>
        /\ log[i].calls # <<>> => log[i].calls[1] = "requests"
        /\ (log[i].calls # <<>> /\ log[i].outcome # "interrupted") =>
              (("selenium" \in Range(log[i].calls)) <=>
                  /\ use_renderer
                  /\ \/ log[i].plain_len = -1
                     \/ log[i].plain_len < 800
                     \/ \E tok \in DynamicMarkers : Contains(Lower(log[i].plain_snippet), tok))
        /\ ~use_renderer => "selenium" \notin Range(log[i].calls)

\* C8 witness: a plain result of 900 characters holding "Load More" was
\* followed by a rendered fetch.
C8_Witness ==
    \E i \in 1..Len(log) :
        /\ log[i].plain_len >= 800
        /\ log[i].calls = <<"requests", "selenium">>
        /\ \E j \in 1..Len(log) : log[j].calls = <<"requests">> /\ log[j].plain_len >= 800
                                  /\ log[j].outcome # "interrupted"

\* C9: once main() is at its finally clause or past it, save_aggregate() has
\* been invoked, its last invocation saw all the records accumulated, and
\* every invocation came before driver.quit() and before anything propagated.
C9_SaveOnEveryRoute ==
    pc \in {"close", "done"} =>
        /\ save_calls # <<>>
        /\ save_calls[Len(save_calls)].records = records
        /\ \A i \in 1..Len(save_calls) :
              save_calls[i].quit_calls = 0 /\ save_calls[i].exc = "none"

\* C9 witness: crawl() raised after records were accumulated, the handler
\* saved them, and main() ended with the exception.
C9_Witness ==
    /\ pc = "done"
    /\ exc = "Exception"
    /\ records # <<>>
    /\ Len(save_calls) = 1
    /\ save_calls[1].route = "save_fatal"
    /\ agg_file = Some(records)

\* C10: when main() has ended, driver.quit() has been called exactly once if
\* a driver was created and never otherwise; before the end it is not called.
C10_DriverReleasedOnce ==
    /\ pc = "done" => quit_calls = (IF driver # "none" THEN 1 ELSE 0)
    /\ pc = "done" => driver # "open"
    /\ pc # "done" => quit_calls = 0 /\ driver # "quit"

\* C10 witness: save_aggregate() raised in the try body, the handler ran,
\* and the driver was quit once.
C10_Witness ==
    /\ pc = "done"
    /\ exc = "Exception"
    /\ Len(save_calls) = 2
    /\ save_calls[1].route = "save_normal"
    /\ save_calls[2].route = "save_fatal"
    /\ driver = "quit"
    /\ quit_calls = 1

\* the iterations that accepted a record, in order
AcceptedEntries == SelectSeq(log, LAMBDA e : e.outcome = "accepted")

\* the accepted records in the order they were accepted
AcceptedInOrder == [i \in 1..Len(AcceptedEntries) |-> AcceptedEntries[i].record[1]]

AllPagesWritten == \A i \in 1..Len(log) : log[i].outcome = "accepted" => log[i].written

\* C12 as stated: when every save_page() wrote its file, every accepted
\* record has a per-page file of its own holding that record, and no two
\* accepted records with distinct URLs share a file name.
C12_OneFilePerRecord ==
    AllPagesWritten =>
        /\ \A i \in 1..Len(records) :
              /\ PageKey(records[i].url) \in DOMAIN files
              /\ files[PageKey(records[i].url)] = records[i]
        /\ \A i, j \in 1..Len(records) :
              records[i].url # records[j].url => PageKey(records[i].url) # PageKey(records[j].url)
        /\ Cardinality(DOMAIN files) = Len(records)

\* C13 as stated: normalize_url is idempotent, a second application returns
\* what the first returned, for every input URL.
C13_Idempotent ==
    Len(nu_trace) >= 2 => nu_trace[2] = nu_trace[1]

\* the host of the base URL
BaseHost == <<"x", ".", "e", "d", "u">>

\* the host h is the base host or a subdomain of it
HostInDomain(h) ==
    \/ h = BaseHost
    \/ /\ Len(h) > Len(BaseHost)
       /\ SubSeq(h, Len(h) - Len(BaseHost), Len(h)) = <<".">> \o BaseHost

InBaseDomain(u) == HostInDomain(Lower(urlparse(u).netloc))

\* C14: every URL in to_visit and in visited has a host that is the base host
\* or ends with "." and the base host, and every URL a GET was issued for is
\* such a URL.
C14_InDomainOnly ==
    /\ \A i \in 1..Len(to_visit) : InBaseDomain(to_visit[i])
    /\ \A u \in visited_urls : InBaseDomain(u)
    /\ \A i \in 1..Len(log) : log[i].gets # <<>> => InBaseDomain(log[i].url)

\* C14 witness: the seed page linked to notx.edu and to SUB.x.edu; the
\* subdomain page was fetched and the frontier was drained down to one URL.
C14_Witness ==
    /\ site = "links"
    /\ Len(to_visit) = 1
    /\ \E i \in 1..Len(log) :
          /\ Lower(urlparse(log[i].url).netloc) = <<"s", "u", "b", ".", "x", ".", "e", "d", "u">>
          /\ log[i].gets # <<>>
          /\ log[i].outcome = "accepted"

\* the text the endpoint reads from hit h of the reply
TextOfHit(h) ==
    IF h.chunk_text # None /\ h.chunk_text # <<"">> THEN h.chunk_text[1]
    ELSE IF index_reply.mode = "legacy" /\ h.text # None THEN h.text[1]
    ELSE ""

\* C15: when retrieval returns no hits the endpoint answers "I don't know"
\* and the LLM is never called; when it returns hits the LLM is called once,
\* on a context of one numbered block per hit in order, and its answer is
\* what the endpoint returns.
C15_AskAnswers ==
    /\ (ask_pc # "off" /\ index_reply.hits = <<>>) => llm_calls = <<>>
    /\ (ask_pc = "done" /\ index_reply.hits = <<>>) =>
          response = <<[answer |-> "I don't know"]>>
    /\ (ask_pc = "done" /\ index_reply.hits # <<>>) =>
          /\ Len(llm_calls) = 1
          /\ llm_calls[1].question = question
          /\ Len(llm_calls[1].context) = Len(index_reply.hits)
          /\ \A i \in 1..Len(index_reply.hits) :
                /\ llm_calls[1].context[i].n = i
                /\ llm_calls[1].context[i].text = TextOfHit(index_reply.hits[i])
          /\ response = <<[answer |-> <<"llm", llm_calls[1].context, question>>]>>

\* C15 witness: the index answered the call without "fields" with no matches
\* and the endpoint returned the fixed answer.
C15_Witness ==
    /\ ask_pc = "done"
    /\ index_reply.mode = "legacy"
    /\ index_reply.hits = <<>>
    /\ response = <<[answer |-> "I don't know"]>>
    /\ llm_calls = <<>>

\* C16 (as stated): no error in processing a single page ends the run: after
\* every iteration, whatever failed in it (a fetch, the extraction of the
\* content or of the links, the page file), crawl() is still running or has
\* returned normally, so no iteration leaves crawl() with an exception
C16_NoPageErrorEndsRun ==
    \A i \in 1..Len(log) : log[i].raised # "Exception"

\* the outcomes of an iteration that marks its URL visited
VisitOutcomes ==
    {"skipped-robots", "fetch-failed", "no-record", "below-threshold", "duplicate-content",
     "accepted"}

\* C17 (as stated): every iteration that marks a URL visited and runs to its
\* end has applied the delay, whatever its outcome, robots-denied included
C17_DelayAfterEveryVisit ==
    \A i \in 1..Len(log) :
        (log[i].outcome \in VisitOutcomes /\ log[i].raised = "none") => log[i].slept

\* C17 (amended): every iteration that passes the robots gate and runs to its
\* end has applied the delay, whether the fetch failed, no record came out, the
\* record was too short or a duplicate, or the page was accepted; so a delay
\* follows every iteration that sent a request. An iteration that ends at the
\* robots gate, or before it, applies no delay.
C17_DelayAfterEveryFetch ==
    \A i \in 1..Len(log) :
        /\ (log[i].outcome \in VisitOutcomes \ {"skipped-robots"} /\ log[i].raised = "none")
              => log[i].slept
        /\ (log[i].calls # <<>> /\ log[i].raised = "none") => log[i].slept
        /\ log[i].outcome \in {"skipped-robots", "skipped-duplicate-visit",
                               "skipped-offdomain"}
              => ~log[i].slept /\ log[i].calls = <<>>

\* a run in which one URL was denied by robots.txt without a delay and another
\* failed to fetch and was followed by the delay
C17_Witness ==
    /\ \E i \in 1..Len(log) : log[i].outcome = "skipped-robots" /\ ~log[i].slept
    /\ \E i \in 1..Len(log) :
          log[i].outcome = "fetch-failed" /\ log[i].raised = "none" /\ log[i].slept

\* C18 (as stated): in every state of crawl() the frontier holds no URL twice
\* and no URL that is in visited
C18_FrontierDisjointFromVisited ==
    /\ \A i, j \in 1..Len(to_visit) : to_visit[i] = to_visit[j] => i = j
    /\ \A i \in 1..Len(to_visit) : to_visit[i] \notin visited_urls

\* C19 (as stated): the canonical URL of every iteration is in visited from the
\* end of that iteration on, and no URL is dequeued again once an iteration has
\* ended on it: two iterations never work on the same canonical URL
C19_PoppedOnceAndVisited ==
    /\ \A i \in 1..Len(log) : log[i].url \in visited_urls
    /\ \A i, j \in 1..Len(log) : log[i].url = log[j].url => i = j

\* the URLs enqueued so far in the order of their enqueueing: those dequeued
\* by the iterations so far, then those pending
EnqueuedSoFar == [i \in 1..Len(log) |-> log[i].popped] \o to_visit

IsPrefix(s, t) == Len(s) <= Len(t) /\ SubSeq(t, 1, Len(s)) = s

RECURSIVE IsSubsequence(_, _)
\* the elements of s occur in t in the order of s
IsSubsequence(s, t) ==
    IF s = <<>> THEN TRUE
    ELSE IF t = <<>> THEN FALSE
    ELSE IF s[1] = t[1] THEN IsSubsequence(Tail(s), Tail(t))
    ELSE IsSubsequence(s, Tail(t))

\* the links extract_links returns for the page at url, in page order
PageLinks(url) ==
    IF Falsy(PageHtml(url)) THEN <<>>
    ELSE extract_links(PageHtml(url)[1], url, base_url).links

\* C20: the frontier is FIFO. In every step the URLs enqueued so far keep their
\* order and only grow at the end, and an iteration dequeues the oldest pending
\* URL: so if u was enqueued before v then u is dequeued before v. Only an
\* accepted page enqueues, and what it enqueues are links of that page in the
\* order they appear on it, so they are dequeued in that order.
C20_Fifo ==
    [][/\ IsPrefix(EnqueuedSoFar, EnqueuedSoFar')
       /\ Len(log') > Len(log) =>
             /\ Len(log') = Len(log) + 1
             /\ log'[Len(log')].popped = Head(to_visit)
       /\ Len(EnqueuedSoFar') > Len(EnqueuedSoFar) =>
             /\ Len(log') = Len(log) + 1
             /\ log'[Len(log')].outcome = "accepted"
             /\ IsSubsequence(SubSeq(EnqueuedSoFar', Len(EnqueuedSoFar) + 1,
                                     Len(EnqueuedSoFar')),
                              PageLinks(log'[Len(log')].url))
      ]_vars

\* an accepted page that is not the first one enqueued two links while an
\* older URL was pending: the older URL was dequeued first, then the two links
\* in the order they have on the page
C20_Witness ==
    /\ pc = "save_normal"
    /\ Len(log) >= 5
    /\ \E i, m, j, k \in 1..Len(log) :
        /\ 1 < i /\ i < m /\ m < j /\ j < k
        /\ log[i].outcome = "accepted"
        /\ log[m].popped \in Range(PageLinks(log[1].url))
        /\ \E a, b \in 1..Len(PageLinks(log[i].url)) :
              /\ a < b
              /\ PageLinks(log[i].url)[a] = log[j].popped
              /\ PageLinks(log[i].url)[b] = log[k].popped
        /\ \A h \in 1..(i - 1) :
              /\ log[j].popped \notin Range(PageLinks(log[h].url))
              /\ log[k].popped \notin Range(PageLinks(log[h].url))

\* the iteration logged as e did not accept its page, judged by what it had in
\* hand: the gate denied the URL, or it fetched and got no record, a record
\* below the word threshold, or one whose digest was already in seen
NotAccepting(e, seen) ==
    \/ e.outcome = "skipped-robots"
    \/ /\ e.calls # <<>>
       /\ \/ e.record = None
          \/ e.record[1].word_count < MinWords
          \/ content_hash(e.record[1].content) \in seen

\* C21: an iteration of crawl() that does not accept its page (robots-denied,
\* no HTML, no record, below 30 words, duplicate digest) leaves records,
\* seen_hashes and the page files as they were and enqueues nothing: it removes
\* the head of to_visit and adds the canonical URL to visited, nothing else.
C21_RejectedPageFrame ==
    [][(Len(log') = Len(log) + 1 /\ NotAccepting(log'[Len(log')], seen_hashes)) =>
          /\ records' = records
          /\ seen_hashes' = seen_hashes
          /\ files' = files
          /\ to_visit' = Tail(to_visit)
          /\ visited_urls' = visited_urls \cup {log'[Len(log')].url}
          /\ ~log'[Len(log')].written
          /\ UNCHANGED <<agg_file, stats_file, driver, driver_ready, rp>>
      ]_vars

\* one run met a robots-denied URL, a failed fetch and a page below the
\* threshold, after it had accepted a page
C21_Witness ==
    /\ records # <<>>
    /\ \E i \in 1..Len(log) : log[i].outcome = "skipped-robots"
    /\ \E i \in 1..Len(log) : log[i].outcome = "fetch-failed"
    /\ \E i \in 1..Len(log) :
          log[i].outcome = "below-threshold" /\ log[i].record[1].word_count = MinWords - 1

\* C22: when an iteration attempts the rendered fetch, the record it works on
\* comes from the rendered result if that returned content, and from the plain
\* result if the rendered fetch failed or no driver is available; if the plain
\* result is empty too, the iteration ends as fetch-failed: nothing is
\* extracted, no record is kept and no link is enqueued.
C22_RenderedFallback ==
    [][(Len(log') = Len(log) + 1 /\ "selenium" \in Range(log'[Len(log')].calls)) =>
          \E e \in {log'[Len(log')]} :
          \E r \in {fetch_via_selenium(e.url)}, p \in {fetch_via_requests(e.url)} :
              /\ ~Falsy(r) => e.record = extract_content(r[1], e.url)
              /\ (Falsy(r) /\ ~Falsy(p)) => e.record = extract_content(p[1], e.url)
              /\ (Falsy(r) /\ Falsy(p)) =>
                    /\ e.outcome = "fetch-failed"
                    /\ e.record = None
                    /\ records' = records
                    /\ seen_hashes' = seen_hashes
                    /\ files' = files
                    /\ to_visit' = Tail(to_visit)
              /\ ~driver_ready => Falsy(r) /\ "selenium" \notin Range(e.gets)
      ]_vars

\* one run attempted the rendered fetch three times: once it replaced a plain
\* result that was nothing, once it failed and the plain result stood and gave
\* a record, once both were empty and the URL was dropped as fetch-failed
C22_Witness ==
    /\ driver_ready
    /\ \E i \in 1..Len(log) :
          /\ "selenium" \in Range(log[i].calls)
          /\ log[i].plain_len = -1
          /\ log[i].record # None
    /\ \E i \in 1..Len(log) :
          /\ "selenium" \in Range(log[i].calls)
          /\ log[i].plain_len > 0
          /\ Falsy(fetch_via_selenium(log[i].url))
          /\ log[i].outcome = "accepted"
    /\ \E i \in 1..Len(log) :
          /\ "selenium" \in Range(log[i].calls)
          /\ log[i].outcome = "fetch-failed"

\* the words of the k-th window chunk_text returned
WindowWords(k) == SplitWords(ct_chunks[k])

RECURSIVE Rebuild(_, _)
\* the text rebuilt from the windows ws: the first step words of each, and
\* the whole of the last one
Rebuild(ws, step) ==
    IF ws = <<>> THEN <<>>
    ELSE IF Len(ws) = 1 THEN SplitWords(ws[1])
    ELSE SubSeq(SplitWords(ws[1]), 1, step) \o Rebuild(Tail(ws), step)

\* chunk_text returned one window per start 0, step, 2*step, ... below the
\* number of words, step = max_words - overlap. Each window holds the words of
\* the text from its start on, at most max_words of them and fewer only where
\* the text ends; it is those words joined by single spaces. Every word lies in
\* a window; what a window holds beyond its first step words is the beginning
\* of the next window (overlap words when the window is full); the windows
\* rebuild the words in order.
WindowsCoverText ==
    \E W \in {SplitWords(ct_text)}, step \in {ct_max_words - ct_overlap} :
        /\ \A k \in 1..Len(ct_chunks) : (k - 1) * step < Len(W)
        /\ Len(ct_chunks) * step >= Len(W)
        /\ \A k \in 1..Len(ct_chunks) :
              /\ ct_chunks[k] = JoinWords(WindowWords(k))
              /\ Len(WindowWords(k)) <= ct_max_words
              /\ \/ Len(WindowWords(k)) = ct_max_words
                 \/ (k - 1) * step + Len(WindowWords(k)) = Len(W)
              /\ \A j \in 1..Len(WindowWords(k)) :
                    /\ (k - 1) * step + j <= Len(W)
                    /\ WindowWords(k)[j] = W[(k - 1) * step + j]
        /\ \A n \in 1..Len(W) :
              \E k \in 1..Len(ct_chunks) :
                  (k - 1) * step < n /\ n <= (k - 1) * step + Len(WindowWords(k))
        /\ \A k \in 1..(Len(ct_chunks) - 1) :
              /\ Len(WindowWords(k)) >= step
              /\ SubSeq(WindowWords(k), step + 1, Len(WindowWords(k)))
                    = SubSeq(WindowWords(k + 1), 1, Len(WindowWords(k)) - step)
              /\ Len(WindowWords(k)) = ct_max_words =>
                    SubSeq(WindowWords(k), step + 1, ct_max_words)
                       = SubSeq(WindowWords(k + 1), 1, ct_overlap)
        /\ Rebuild(ct_chunks, step) = W

\* C23 (as stated): whenever overlap < max_words, the windows chunk_text
\* returns start every max_words - overlap words, hold at most max_words words
\* each, contain every word of the text, share the overlapping words and
\* rebuild the text
C23_AnyOverlapBelowMax ==
    (ct_pc = "returned" /\ ct_overlap < ct_max_words) => WindowsCoverText

\* C23 (amended): whenever 0 <= overlap < max_words, the windows chunk_text
\* returns start every max_words - overlap words, hold at most max_words words
\* each (fewer only at the end of the text), contain every word of the text,
\* share the overlapping words and rebuild the words of the text in order
C23_ChunkWindows ==
    (ct_pc = "returned" /\ 0 <= ct_overlap /\ ct_overlap < ct_max_words) => WindowsCoverText

\* a text with irregular whitespace and two different words was cut into at
\* least three overlapping windows, the last of them shorter than max_words
C23_Witness ==
    /\ ct_pc = "returned"
    /\ Len(ct_chunks) >= 3
    /\ ct_overlap >= 1
    /\ ct_text # JoinWords(SplitWords(ct_text))
    /\ Range(SplitWords(ct_text)) = TextWords
    /\ Len(WindowWords(1)) = ct_max_words
    /\ Len(WindowWords(Len(ct_chunks))) < ct_max_words

====
